---- MODULE Spec2Model ----
(***************************************************************************)
(* Model of stellargraph/mapper/mini_batch_node_generators.py:             *)
(* ClusterNodeGenerator (configuration, auto-partition, flow) and          *)
(* ClusterNodeSequence (epoch reshuffle, batch retrieval, node_order).     *)
(*                                                                         *)
(* Nodes are the integers 1..N; G.nodes() lists them ascending.  Python    *)
(* lists are sequences (0-based indices of the code are shifted by one     *)
(* where a sequence is indexed).  random.shuffle and the iteration order   *)
(* of a Python set / subgraph view are nondeterministic choices over all   *)
(* orderings.  Matrix entries are exact rationals <<num, den>>, den > 0.   *)
(***************************************************************************)
EXTENDS Integers, Sequences, FiniteSets, TLC

\* ------------------------------------------------------------------ bounds
MaxNodes == 2           \* nodes of the graph, sequence life cycle
MaxTargets == 2         \* length of node_ids
MaxQ == 2               \* q
MaxGenNodes == 5        \* nodes of the graph, generator construction
MaxK == 3               \* integer cluster count
MaxEpochNodes == 4      \* nodes of the graph, epoch reshuffle
MaxAdjNodes == 3        \* nodes of the graph, adjacency normalisation

\* ------------------------------------------------------- Python primitives
None == [none |-> TRUE, v |-> <<>>]
Some(x) == [none |-> FALSE, v |-> x]

Min(a, b) == IF a < b THEN a ELSE b

ToSet(list) == {list[i] : i \in 1..Len(list)}

RECURSIVE Orderings(_)
\* all the sequences that list the set S once each: the results of
\* random.shuffle, and the iteration orders of a set
Orderings(S) ==
    IF S = {} THEN {<<>>}
    ELSE UNION {{<<x>> \o p : p \in Orderings(S \ {x})} : x \in S}

\* random.shuffle(list): every permutation of the list
shuffle(list) ==
    {[i \in 1..Len(list) |-> list[p[i]]] : p \in Orderings(1..Len(list))}

\* list(range(start, stop, step)), step > 0
range(start, stop, step) ==
    LET n == IF stop <= start THEN 0 ELSE (stop - start + step - 1) \div step
    IN  [j \in 1..n |-> start + (j - 1) * step]

\* list[i:j] for 0 <= i
slice(list, i, j) == SubSeq(list, i + 1, Min(j, Len(list)))

RECURSIVE extend_all(_)
\* the concatenation of a list of lists (repeated list.extend)
extend_all(lists) ==
    IF lists = <<>> THEN <<>> ELSE Head(lists) \o extend_all(Tail(lists))

\* ------------------------------------------------------------------- state
VARIABLES
    phase,              \* "start", "generator", "sequence" or "failed"
    op,                 \* the last operation invoked
    err,                \* the exception the last operation raised, or "none"
    graph,              \* G: [nodes |-> list of ids, edges |-> set of {u, v}]
    arg_clusters,       \* the clusters argument: an int count or a list of lists
    q,                  \* clusters combined per mini-batch
    lam,                \* [type, num, den]: lam as typed exact rational
    node_ids,           \* flow / sequence argument: None or a list of ids
    targets,            \* flow / sequence argument: None or a list of rows
    normalize_adj,      \* ClusterNodeSequence.normalize_adj
    k,                  \* ClusterNodeGenerator.k
    gen_clusters,       \* ClusterNodeGenerator.clusters
    clusters_original,  \* ClusterNodeSequence.clusters_original
    clusters,           \* ClusterNodeSequence.clusters (working list)
    target_ids,         \* ClusterNodeSequence.target_ids
    node_buffer,        \* __node_buffer: insertion-ordered list of [k, v]
    node_order,         \* ClusterNodeSequence.node_order
    index,              \* argument of the last __getitem__, -1 before any
    retrieved,          \* history: the indices of the batches returned since
                        \* the last on_epoch_end, in the order of their first
                        \* retrieval
    ret                 \* the value the last __getitem__ returned

vars == <<phase, op, err, graph, arg_clusters, q, lam, node_ids, targets,
          normalize_adj, k, gen_clusters, clusters_original, clusters,
          target_ids, node_buffer, node_order, index, retrieved, ret>>

inputs == <<graph, arg_clusters, q, lam, node_ids, targets>>
seq_fields == <<clusters_original, clusters, target_ids, node_buffer, node_order,
                retrieved>>

NoRet == [features |-> <<>>, target_node_indices |-> <<>>, adj |-> <<>>,
          cluster_targets |-> None]

\* ------------------------------------------------------------------ inputs
IntClusters(n) == [kind |-> "int", k |-> n, list |-> <<>>]
ListClusters(l) == [kind |-> "list", k |-> 0, list |-> l]

PyFloat(n, d) == [type |-> "float", num |-> n, den |-> d]
PyInt(n) == [type |-> "int", num |-> n, den |-> 1]

Graph(n, e) == [nodes |-> [i \in 1..n |-> i], edges |-> e]
AllEdges(n) == {{u, v} : u \in 1..n, v \in 1..n} \ {{u} : u \in 1..n}

RECURSIVE Compositions(_)
\* the ways to cut a list into consecutive non-empty clusters
Compositions(list) ==
    IF list = <<>> THEN {<<>>}
    ELSE UNION {{<<SubSeq(list, 1, i)>> \o c :
                    c \in Compositions(SubSeq(list, i + 1, Len(list)))} :
                i \in 1..Len(list)}

\* the lists of at most m ids drawn from 1..n (repetitions allowed)
IdLists(n, m) == UNION {[1..l -> 1..n] : l \in 0..m}

\* a 2D target array with m rows; row i holds the value 6 + i
TargetRows(m) == [i \in 1..m |-> <<6 + i>>]

StartState ==
    /\ phase = "start" /\ op = "none" /\ err = "none"
    /\ k = 0 /\ gen_clusters = <<>>
    /\ clusters_original = <<>> /\ clusters = <<>> /\ target_ids = <<>>
    /\ node_buffer = <<>> /\ node_order = <<>>
    /\ index = -1 /\ retrieved = <<>> /\ ret = NoRet

\* --------------------------------------------------- ClusterNodeGenerator
\* isinstance(lam, float)
is_float(l) == l.type = "float"

\* faulty variant: the upper end of the range excluded
lam_out_of_range_strict(l) == l.num < 0 \/ l.num >= l.den

\* lam < 0 or lam > 1
lam_out_of_range(l) == l.num < 0 \/ l.num > l.den

\* the validation of __init__, in the order of the code: the name of the
\* exception raised, or "none"
generator_check(c, l, qq) ==
    LET kk == IF c.kind = "list" THEN Len(c.list) ELSE c.k
    IN  IF c.kind = "int" /\ c.k <= 0 THEN "ValueError"
        ELSE IF ~is_float(l) THEN "TypeError"
        ELSE IF lam_out_of_range(l) THEN "ValueError"
        ELSE IF qq <= 0 THEN "ValueError"
        ELSE IF kk % qq # 0 THEN "ValueError"
        ELSE "none"

\* the auto-partition of the shuffled node list into kk clusters
\* (cluster_size > 0; range() raises on a zero step)
auto_partition(all_nodes, kk) ==
    LET cluster_size == Len(all_nodes) \div kk
        starts == range(0, Len(all_nodes), cluster_size)
        chunks == [j \in 1..Len(starts) |->
                      slice(all_nodes, starts[j], starts[j] + cluster_size)]
        n == Len(chunks)
    IN  IF n > kk
        THEN SubSeq(chunks, 1, n - 2) \o <<chunks[n - 1] \o chunks[n]>>
        ELSE chunks

Fail(e) ==
    /\ phase' = "failed"
    /\ err' = e

\* ClusterNodeGenerator.__init__(G, clusters, q, lam)
GeneratorInit ==
    /\ phase = "start"
    /\ op' = "ClusterNodeGenerator"
    /\ LET e == generator_check(arg_clusters, lam, q)
           kk == IF arg_clusters.kind = "list" THEN Len(arg_clusters.list)
                 ELSE arg_clusters.k
       IN  IF e # "none"
           THEN Fail(e) /\ UNCHANGED <<k, gen_clusters>>
           ELSE IF arg_clusters.kind = "list"
           THEN /\ phase' = "generator" /\ err' = "none"
                /\ k' = kk
                /\ gen_clusters' = arg_clusters.list
           ELSE IF Len(graph.nodes) \div kk = 0
           THEN Fail("ValueError") /\ k' = kk /\ UNCHANGED gen_clusters
           ELSE \E all_nodes \in shuffle(graph.nodes) :
                   /\ phase' = "generator" /\ err' = "none"
                   /\ k' = kk
                   /\ gen_clusters' = auto_partition(all_nodes, kk)
    /\ UNCHANGED <<inputs, normalize_adj, seq_fields, index, ret>>

\* ---------------------------------------------------- ClusterNodeSequence
\* __len__
seq_len(co, qq) == Len(co) \div qq

\* faulty variant: the walk stops one group early
group_starts_short(n, qq) == range(0, n - qq, qq)

\* range(0, len(cluster_indices) - 1, self.q)
group_starts(n, qq) == range(0, n - 1, qq)

\* faulty variant: a group takes one cluster too few
group_members_short(cluster_indices, i, qq) == slice(cluster_indices, i, i + qq - 1)

\* cc = cluster_indices[i : i + self.q]
group_members(cluster_indices, i, qq) == slice(cluster_indices, i, i + qq)

\* the working cluster lists on_epoch_end can leave
on_epoch_end(co, qq) ==
    IF qq > 1
    THEN UNION {
           LET starts == group_starts(Len(cluster_indices), qq)
               combined == [j \in 1..Len(starts) |->
                   LET cc == group_members(cluster_indices, starts[j], qq)
                   IN  extend_all([m \in 1..Len(cc) |-> co[cc[m] + 1]])]
           IN  shuffle(combined) :
           cluster_indices \in shuffle(range(0, Len(co), 1))}
    ELSE shuffle(co)

\* faulty variant: the divisibility check left out
not_divisible_unchecked(n, qq) == FALSE

\* len(clusters) % self.q != 0
not_divisible(n, qq) == n % qq # 0

\* dict(zip(self.target_ids, range(len(self.target_ids)))): a later
\* occurrence of an id replaces an earlier one
target_node_lookup(ids) ==
    [n \in ToSet(ids) |->
        CHOOSE i \in 0..(Len(ids) - 1) :
            /\ ids[i + 1] = n
            /\ \A j \in 0..(Len(ids) - 1) : ids[j + 1] = n => j <= i]

\* the validation of ClusterNodeSequence.__init__: the exception or "none"
sequence_check(cl, tg, ids, qq) ==
    IF qq = 0 THEN "ZeroDivisionError"
    ELSE IF not_divisible(Len(cl), qq) THEN "ValueError"
    ELSE IF ~tg.none /\ ids.none THEN "ValueError"
    ELSE IF ~tg.none /\ Len(ids.v) # Len(tg.v) THEN "ValueError"
    ELSE "none"

\* ClusterNodeSequence.__init__(graph, clusters, targets, node_ids, ...),
\* ending with its call of on_epoch_end
SequenceInit(cl, tg, ids, na) ==
    LET e == sequence_check(cl, tg, ids, q)
    IN  /\ clusters_original' = cl
        /\ target_ids' = IF ids.none THEN <<>> ELSE ids.v
        /\ normalize_adj' = na
        /\ node_order' = <<>>
        /\ node_buffer' = <<>>
        /\ retrieved' = <<>>
        /\ IF e # "none"
           THEN Fail(e) /\ clusters' = <<>>
           ELSE /\ phase' = "sequence" /\ err' = "none"
                /\ clusters' \in on_epoch_end(cl, q)

\* ClusterNodeGenerator.flow(node_ids, targets)
Flow ==
    /\ phase = "generator"
    /\ op' = "flow"
    /\ IF ~targets.none /\ node_ids.none
       THEN \* len(None)
            /\ err' = "TypeError"
            /\ UNCHANGED <<phase, normalize_adj, seq_fields>>
       ELSE IF ~targets.none /\ Len(targets.v) # Len(node_ids.v)
       THEN /\ err' = "ValueError"
            /\ UNCHANGED <<phase, normalize_adj, seq_fields>>
       ELSE SequenceInit(gen_clusters, targets, node_ids, TRUE)
    /\ UNCHANGED <<inputs, k, gen_clusters, index, ret>>

\* ClusterNodeSequence(graph, clusters, targets, node_ids, normalize_adj,
\* q, lam) constructed directly
NewSequence ==
    /\ phase = "start"
    /\ arg_clusters.kind = "list"
    /\ op' = "ClusterNodeSequence"
    /\ SequenceInit(arg_clusters.list, targets, node_ids, normalize_adj)
    /\ UNCHANGED <<inputs, k, gen_clusters, index, ret>>

\* on_epoch_end() called by the driver
OnEpochEnd ==
    /\ phase = "sequence"
    /\ op' = "on_epoch_end"
    /\ err' = "none"
    /\ clusters' \in on_epoch_end(clusters_original, q)
    /\ node_buffer' = <<>>
    /\ retrieved' = <<>>
    /\ UNCHANGED <<phase, inputs, normalize_adj, k, gen_clusters,
                   clusters_original, target_ids, node_order, index, ret>>

\* ------------------------------------------------------------ __getitem__
RECURSIVE sum(_)
sum(row) == IF row = <<>> THEN 0 ELSE Head(row) + sum(Tail(row))

\* nx.adjacency_matrix(g_cluster), rows and columns in g_node_list order
adjacency_matrix(g_node_list) ==
    [i \in 1..Len(g_node_list) |-> [j \in 1..Len(g_node_list) |->
        IF {g_node_list[i], g_node_list[j]} \in graph.edges THEN 1 ELSE 0]]

\* adj_cluster.setdiag(1)
setdiag_one(m) ==
    [i \in 1..Len(m) |-> [j \in 1..Len(m) |-> IF i = j THEN 1 ELSE m[i][j]]]

\* degree_matrix_diag = 1.0 / (adj_cluster.sum(axis=1) + 1), entry of row
degree_matrix_diag(row) == <<1, sum(row) + 1>>

\* the normalisation of lines 297-305: self loops, D @ A, then the
\* diagonal times (1 + lam)
normalize(m, l) ==
    LET a == setdiag_one(m)
    IN  [i \in 1..Len(a) |-> [j \in 1..Len(a) |->
            LET d == degree_matrix_diag(a[i])
            IN  IF i = j
                THEN <<(l.den + l.num) * d[1] * a[i][j], l.den * d[2]>>
                ELSE <<d[1] * a[i][j], d[2]>>]]

\* the adjacency as returned without normalisation
unnormalized(m) ==
    [i \in 1..Len(m) |-> [j \in 1..Len(m) |-> <<m[i][j], 1>>]]

\* faulty variant: positions counted from one
node_lookup_from_one(g_node_list) ==
    [n \in ToSet(g_node_list) |->
        CHOOSE i \in 1..Len(g_node_list) : g_node_list[i] = n]

\* node_lookup = dict(zip(g_node_list, range(len(g_node_list))))
node_lookup(g_node_list) ==
    [n \in ToSet(g_node_list) |->
        CHOOSE i \in 0..(Len(g_node_list) - 1) : g_node_list[i + 1] = n]

\* faulty variant: assigning an existing key moves it to the end
dict_set_move_to_end(d, key, v) ==
    SelectSeq(d, LAMBDA e : e.k # key) \o <<[k |-> key, v |-> v]>>

\* self.__node_buffer[index] = v on an insertion-ordered dict
dict_set(d, key, v) ==
    IF \E i \in 1..Len(d) : d[i].k = key
    THEN [i \in 1..Len(d) |-> IF d[i].k = key THEN [k |-> key, v |-> v]
                              ELSE d[i]]
    ELSE Append(d, [k |-> key, v |-> v])

\* the position of a key of the dict
dict_get(d, key) == CHOOSE i \in 1..Len(d) : d[i].k = key

\* __node_buffer_dict_to_list: the new node_order
node_buffer_dict_to_list(d) == extend_all([i \in 1..Len(d) |-> d[i].v])

\* faulty variant: the first batch index taken for the last
is_last_batch_first(i) == i = 0

\* faulty variant: the last batch index taken one too high
is_last_batch_late(i) == i = seq_len(clusters_original, q)

\* index == (len(self.clusters_original) // self.q) - 1
is_last_batch(i) == i = seq_len(clusters_original, q) - 1

\* the dtype numpy gives np.array(list) for a list of ints: an empty
\* list makes a float64 array
array_dtype(list) == IF list = <<>> THEN "float64" ELSE "int64"

\* __getitem__(index)
GetItem(i) ==
    /\ phase = "sequence"
    /\ op' = "__getitem__"
    /\ index' = i
    /\ IF i >= Len(clusters)
       THEN \* self.clusters[index]
            /\ err' = "IndexError"
            /\ ret' = NoRet
            /\ UNCHANGED <<node_buffer, node_order, retrieved>>
       ELSE \E g_node_list \in Orderings(ToSet(clusters[i + 1])) :
            \E target_nodes_in_cluster \in
                   Orderings(ToSet(g_node_list) \cap ToSet(target_ids)) :
            LET adjm == adjacency_matrix(g_node_list)
                adj_cluster == IF normalize_adj THEN normalize(adjm, lam)
                               ELSE unnormalized(adjm)
                buf == dict_set(node_buffer, i, target_nodes_in_cluster)
                nl == node_lookup(g_node_list)
                target_node_indices ==
                    [j \in 1..Len(target_nodes_in_cluster) |->
                        nl[target_nodes_in_cluster[j]]]
                tl == target_node_lookup(target_ids)
                cluster_target_indices ==
                    [j \in 1..Len(target_nodes_in_cluster) |->
                        tl[target_nodes_in_cluster[j]]]
            IN  /\ node_buffer' = buf
                /\ node_order' = IF is_last_batch(i)
                                 THEN node_buffer_dict_to_list(buf)
                                 ELSE node_order
                /\ IF ~targets.none
                      /\ array_dtype(cluster_target_indices) # "int64"
                   THEN \* self.targets[cluster_target_indices]
                        /\ err' = "IndexError"
                        /\ ret' = NoRet
                        /\ UNCHANGED retrieved
                   ELSE /\ err' = "none"
                        /\ retrieved' = IF i \in ToSet(retrieved) THEN retrieved
                                        ELSE Append(retrieved, i)
                        /\ ret' =
                             [features |-> <<g_node_list>>,
                              target_node_indices |-> <<<<target_node_indices>>>>,
                              adj |-> <<adj_cluster>>,
                              cluster_targets |->
                                 IF targets.none THEN None
                                 ELSE Some(<<[j \in 1..Len(cluster_target_indices) |->
                                     targets.v[cluster_target_indices[j] + 1]]>>)]
    /\ UNCHANGED <<phase, inputs, normalize_adj, k, gen_clusters,
                   clusters_original, clusters, target_ids>>

\* ---------------------------------------------------------- specifications
\* the graph 1 - 2 - ... - n
PathGraph(n) == Graph(n, {{u, u + 1} : u \in 1..(n - 1)})

ClusterLists(n) == {ListClusters(c) : c \in Compositions([i \in 1..n |-> i])}

\* targets: None, an array with one row per node id, or one with a row
\* too many
TargetsFor(ids) ==
    LET n == IF ids.none THEN 0 ELSE Len(ids.v)
    IN  {None, Some(TargetRows(n)), Some(TargetRows(n + 1))}

\* Spec: the sequence life cycle over explicit cluster lists
Init ==
    /\ StartState
    /\ \E n \in 1..MaxNodes :
          /\ graph = PathGraph(n)
          /\ arg_clusters \in ClusterLists(n)
          /\ node_ids \in {None} \cup {Some(l) : l \in IdLists(n, MaxTargets)}
    /\ q \in 0..MaxQ
    /\ lam = PyFloat(1, 10)
    /\ targets \in TargetsFor(node_ids)
    /\ normalize_adj = TRUE

Next ==
    \/ GeneratorInit
    \/ Flow
    \/ NewSequence
    \/ OnEpochEnd
    \/ \E i \in 0..Len(clusters) : GetItem(i)

Spec == Init /\ [][Next]_vars

\* SpecGen: generator construction with every kind of lam and an integer
\* or explicit cluster argument, then flow
LamInputs ==
    {PyFloat(-1, 2), PyFloat(0, 1), PyFloat(1, 2), PyFloat(1, 1), PyFloat(3, 2),
     PyInt(-1), PyInt(0), PyInt(1), PyInt(2)}

InitGen ==
    /\ StartState
    /\ \E n \in 1..MaxGenNodes :
          /\ graph = PathGraph(n)
          /\ arg_clusters \in {IntClusters(c) : c \in 0..MaxK}
                              \cup {ListClusters([i \in 1..n |-> <<i>>])}
    /\ q \in 0..MaxQ
    /\ lam \in LamInputs
    /\ node_ids = None
    /\ targets = None
    /\ normalize_adj = TRUE

NextGen ==
    \/ GeneratorInit
    \/ Flow

SpecGen == InitGen /\ [][NextGen]_vars

\* SpecEpoch: construction and epoch reshuffles, without retrievals
InitEpoch ==
    /\ StartState
    /\ \E n \in 1..MaxEpochNodes :
          /\ graph = PathGraph(n)
          /\ arg_clusters \in ClusterLists(n)
    /\ q \in 0..MaxQ
    /\ lam = PyFloat(1, 10)
    /\ node_ids = None
    /\ targets = None
    /\ normalize_adj = TRUE

NextEpoch ==
    \/ GeneratorInit
    \/ Flow
    \/ NewSequence
    \/ OnEpochEnd

SpecEpoch == InitEpoch /\ [][NextEpoch]_vars

\* SpecAdj: the adjacency of a batch over every graph and several lam,
\* with and without normalisation, no target ids
InitAdj ==
    /\ StartState
    /\ \E n \in 1..MaxAdjNodes :
          /\ graph \in {Graph(n, e) : e \in SUBSET AllEdges(n)}
          /\ arg_clusters \in ClusterLists(n)
    /\ q = 1
    /\ lam \in {PyFloat(0, 1), PyFloat(1, 10), PyFloat(1, 1)}
    /\ node_ids = None
    /\ targets = None
    /\ normalize_adj \in BOOLEAN

SpecAdj == InitAdj /\ [][Next]_vars

\* ------------------------------------------------------------------ claims
\* the list names every element of S exactly once
ListsOnce(list, S) ==
    /\ ToSet(list) = S
    /\ \A i, j \in 1..Len(list) : list[i] = list[j] => i = j

GraphNodes == ToSet(graph.nodes)

\* C1: whenever construction succeeds with an integer cluster count k over
\* N nodes, the cluster list has exactly k clusters, the sizes sum to N and
\* every node is in exactly one cluster.
C1_AutoPartition ==
    (op = "ClusterNodeGenerator" /\ phase = "generator"
        /\ arg_clusters.kind = "int")
    => /\ Len(gen_clusters) = arg_clusters.k
       /\ Len(extend_all(gen_clusters)) = Len(graph.nodes)
       /\ ListsOnce(extend_all(gen_clusters), GraphNodes)

\* the arguments of the generator other than lam are valid
OtherArgsValid ==
    LET kk == IF arg_clusters.kind = "list" THEN Len(arg_clusters.list)
              ELSE arg_clusters.k
    IN  /\ arg_clusters.kind = "int" => kk >= 1 /\ kk <= Len(graph.nodes)
        /\ q >= 1
        /\ kk % q = 0

LamInUnitInterval == lam.num >= 0 /\ lam.num <= lam.den

\* C9 (as stated): the generator accepts every numeric lam in [0, 1], the
\* integers 0 and 1 included, and rejects every numeric lam outside [0, 1]
\* with an invalid-value error.
C9_LamNumeric ==
    (op = "ClusterNodeGenerator" /\ OtherArgsValid)
    => IF LamInUnitInterval THEN phase = "generator" /\ err = "none"
       ELSE phase = "failed" /\ err = "ValueError"

\* C9 (amended): the generator accepts every float lam in [0, 1], rejects
\* every float lam outside [0, 1] with a ValueError, and rejects every lam
\* that is not a float, the integers 0 and 1 included, with a TypeError.
C9_LamFloat ==
    (op = "ClusterNodeGenerator" /\ OtherArgsValid)
    => IF lam.type # "float" THEN phase = "failed" /\ err = "TypeError"
       ELSE IF LamInUnitInterval THEN phase = "generator" /\ err = "none"
       ELSE phase = "failed" /\ err = "ValueError"

\* the float 1.0, the upper end of the range, accepted with an integer
\* cluster count
C9_Witness ==
    /\ op = "ClusterNodeGenerator" /\ OtherArgsValid
    /\ arg_clusters.kind = "int"
    /\ lam = PyFloat(1, 1)
    /\ phase = "generator"

\* C2: with q > 1 dividing L = len(clusters_original), on_epoch_end (the one
\* of the constructor included) leaves exactly L/q combined clusters, each
\* the concatenation of q distinct original clusters, every original used
\* in exactly one of them, and no node in two combined clusters.
C2_Grouping ==
    (phase = "sequence" /\ q > 1)
    => LET L == Len(clusters_original)
       IN  /\ Len(clusters) * q = L
           /\ \E p \in Orderings(1..L) :
                 \A j \in 1..Len(clusters) :
                    clusters[j] = extend_all(
                        [m \in 1..q |-> clusters_original[p[(j - 1) * q + m]]])
           /\ \A i, j \in 1..Len(clusters) :
                 i # j => ToSet(clusters[i]) \cap ToSet(clusters[j]) = {}

\* an explicit on_epoch_end that made two groups of two clusters
C2_Witness ==
    /\ phase = "sequence" /\ op = "on_epoch_end"
    /\ q = 2 /\ Len(clusters_original) = 4
    /\ Len(clusters) = 2

\* the batch indices of one epoch, 0..len-1
BatchIndices == 0..(seq_len(clusters_original, q) - 1)

\* the target ids that occur in at least one cluster
TargetsInClusters ==
    ToSet(target_ids) \cap ToSet(extend_all(clusters_original))

\* C3 (as stated): once every batch index has been retrieved since the last
\* on_epoch_end, in whatever order, node_order holds exactly the target ids
\* that occur in a cluster, each once.
C3_AnyOrder ==
    (phase = "sequence" /\ ToSet(retrieved) = BatchIndices)
    => ListsOnce(node_order, TargetsInClusters)

\* C3 (amended): once every batch index has been retrieved since the last
\* on_epoch_end and the latest retrieval was that of index len-1, node_order
\* holds exactly the target ids that occur in a cluster, each once.
C3_LastIndexLast ==
    (phase = "sequence" /\ ToSet(retrieved) = BatchIndices
        /\ index = seq_len(clusters_original, q) - 1)
    => ListsOnce(node_order, TargetsInClusters)

\* both batches of an epoch retrieved, index len-1 latest, two target ids
\* in node_order
C3_Witness ==
    /\ phase = "sequence" /\ op = "__getitem__"
    /\ Len(clusters) = 2
    /\ ToSet(retrieved) = BatchIndices
    /\ index = 1
    /\ Len(node_order) = 2

\* C4: in every state of a sequence, after any number of on_epoch_end calls
\* and retrievals, on_epoch_end has not raised and the working cluster list
\* holds every node of clusters_original in exactly one cluster and no
\* other node, for q = 1 and for q > 1.
C4_EpochEndSafety ==
    phase = "sequence"
    => /\ op = "on_epoch_end" => err = "none"
       /\ ListsOnce(extend_all(clusters),
                    ToSet(extend_all(clusters_original)))
       /\ Len(extend_all(clusters)) = Len(extend_all(clusters_original))

\* an on_epoch_end with q > 1 that followed a retrieval
C4_Witness ==
    /\ phase = "sequence" /\ op = "on_epoch_end"
    /\ q > 1
    /\ index = 0
    /\ Len(clusters_original) = 2

\* C5: the construction of a sequence fails when len(clusters) is not
\* divisible by q, and in every state of a constructed sequence
\* len(clusters_original) % q = 0 and the working list has exactly
\* __len__() = len(clusters_original) / q clusters.
C5_BatchCount ==
    /\ (op = "ClusterNodeSequence" /\ q # 0
           /\ Len(arg_clusters.list) % q # 0)
       => phase = "failed" /\ err = "ValueError"
    /\ phase = "sequence"
       => /\ Len(clusters_original) % q = 0
          /\ Len(clusters) = seq_len(clusters_original, q)
          /\ Len(clusters) * q = Len(clusters_original)

\* a retrieval from a sequence that combines two clusters into one batch
C5_Witness ==
    /\ phase = "sequence" /\ op = "__getitem__"
    /\ q = 2 /\ Len(clusters_original) = 2
    /\ index = 0 /\ err = "none"

\* the cluster of the last retrieval
BatchCluster == ToSet(clusters[index + 1])

\* the last operation was a retrieval at an index in range
Retrieved == phase = "sequence" /\ op = "__getitem__" /\ index < Len(clusters)

\* C6: a retrieval whose cluster holds none of the target ids does not
\* raise; it returns an empty target-index array and, when target values
\* were supplied, an empty gathered-targets tensor.
C6_EmptyTargetBatch ==
    (Retrieved /\ BatchCluster \cap ToSet(target_ids) = {})
    => /\ err = "none"
       /\ ret.target_node_indices = <<<<<<>>>>>>
       /\ ~targets.none => ret.cluster_targets = Some(<<<<>>>>)

\* C8: in every batch returned by a sequence with target values, entry j of
\* target_node_indices is the position in g_node_list of a target node n of
\* the cluster, row j of the target tensor is the row of the target array at
\* a position of n in node_ids, and every target id of the cluster is
\* represented exactly once.
C8_TargetAlignment ==
    (Retrieved /\ err = "none" /\ ~targets.none)
    => LET g_node_list == ret.features[1]
           tni == ret.target_node_indices[1][1]
           rows == ret.cluster_targets.v[1]
           T == BatchCluster \cap ToSet(node_ids.v)
       IN  /\ Len(rows) = Len(tni)
           /\ \A j \in 1..Len(tni) :
                 /\ tni[j] + 1 \in 1..Len(g_node_list)
                 /\ g_node_list[tni[j] + 1] \in T
                 /\ \E pos \in 1..Len(node_ids.v) :
                       /\ node_ids.v[pos] = g_node_list[tni[j] + 1]
                       /\ rows[j] = targets.v[pos]
           /\ \A n \in T :
                 Cardinality({j \in 1..Len(tni) :
                     tni[j] + 1 \in 1..Len(g_node_list)
                     /\ g_node_list[tni[j] + 1] = n}) = 1

\* a batch with two target nodes, listed against their order in g_node_list
C8_Witness ==
    /\ Retrieved /\ err = "none" /\ ~targets.none
    /\ Len(ret.target_node_indices[1][1]) = 2
    /\ ret.target_node_indices[1][1][1] > ret.target_node_indices[1][1][2]
    /\ ret.cluster_targets.v[1] = <<<<8>>, <<7>>>>

\* the buffered target lists in the order of the batch indices in order
Concatenated(order) ==
    extend_all([j \in 1..Len(order) |-> node_buffer[dict_get(node_buffer, order[j])].v])

\* the retrieved batch indices in ascending order
RECURSIVE Ascending(_)
Ascending(S) ==
    IF S = {} THEN <<>>
    ELSE LET m == CHOOSE x \in S : \A y \in S : x <= y
         IN  <<m>> \o Ascending(S \ {m})

\* the latest operation was the retrieval of the last batch index
LastIndexRetrieved ==
    Retrieved /\ index = seq_len(clusters_original, q) - 1

\* C10 (as stated): whenever index len-1 is retrieved, node_order becomes
\* the concatenation of the buffered target lists in ascending batch-index
\* order, whatever the order of the retrievals.
C10_AscendingOrder ==
    LastIndexRetrieved
    => node_order = Concatenated(Ascending(ToSet(retrieved)))

\* C10 (amended): whenever index len-1 is retrieved, node_order becomes the
\* concatenation of the buffered target lists in the order in which their
\* batch indices were first retrieved since the last on_epoch_end.
C10_RetrievalOrder ==
    LastIndexRetrieved
    => node_order = Concatenated(retrieved)

\* index len-1 retrieved again after a lower index, each batch with a target
C10_Witness ==
    /\ LastIndexRetrieved
    /\ Len(retrieved) = 2
    /\ retrieved[1] > retrieved[2]
    /\ index = retrieved[1]
    /\ Len(node_order) = 2

\* the neighbours of node u inside the cluster of the last retrieval
n_in_cluster(u) == Cardinality({v \in BatchCluster : {u, v} \in graph.edges})

RatEq(a, b) == a[1] * b[2] = b[1] * a[2]

\* C7: with normalisation, where node u has n_u neighbours in the cluster,
\* the adjacency has diagonal entry (1 + lam) / (n_u + 1) and off-diagonal
\* entry (u, v) equal to 1 / (n_u + 1) for adjacent u, v and 0 otherwise.
C7_NormalizedAdjacency ==
    (Retrieved /\ err = "none" /\ normalize_adj)
    => LET g_node_list == ret.features[1]
           adj == ret.adj[1]
       IN  \A i, j \in 1..Len(g_node_list) :
              LET n_u == n_in_cluster(g_node_list[i])
              IN  IF i = j
                  THEN RatEq(adj[i][j], <<lam.den + lam.num, lam.den * (n_u + 1)>>)
                  ELSE IF {g_node_list[i], g_node_list[j]} \in graph.edges
                  THEN RatEq(adj[i][j], <<1, n_u + 1>>)
                  ELSE RatEq(adj[i][j], <<0, 1>>)

\* C11: node_order is written only by the retrieval of the last batch
\* index: a retrieval of any other index leaves node_order unchanged, and
\* on_epoch_end empties the node buffer and leaves node_order unchanged.
C11_NodeOrderFrame ==
    [][/\ (phase = "sequence" /\ op' = "__getitem__"
              /\ index' # seq_len(clusters_original, q) - 1)
          => node_order' = node_order
       /\ (phase = "sequence" /\ op' = "on_epoch_end")
          => node_buffer' = <<>> /\ node_order' = node_order]_vars

\* after an on_epoch_end the buffer is empty and the order of the previous
\* epoch, two target ids, is still in node_order
C11_Witness ==
    /\ phase = "sequence" /\ op = "on_epoch_end"
    /\ node_buffer = <<>>
    /\ Len(node_order) = 2
====
